---- MODULE Spec2Model ----
(***************************************************************************)
(* Model of the hooks of trives-hooks.                                     *)
(*                                                                         *)
(* useFormValidation (src/src/hooks/useCopy.ts:58-221) is a React hook:    *)
(* its two state cells (values, errors) live in React, and the functions   *)
(* it returns (validateField, handleChange, validateAll, reset) are        *)
(* closures of one render.  A closure reads the constant `values` of the   *)
(* render that created it; setValues / setErrors write the state cell,     *)
(* and the new cell content becomes visible to closures only with the      *)
(* next render.  The model therefore keeps the state cells                 *)
(* (valuesState, errorsState) apart from the render's snapshot (values).   *)
(*                                                                         *)
(* Strings that are inspected character by character (field values) are    *)
(* sequences of one-character strings; field keys and labels are strings.  *)
(* An error message is the tuple of the parts of its template literal;     *)
(* null is the empty tuple.                                                *)
(***************************************************************************)
EXTENDS Integers, Sequences, FiniteSets, TLC

VARIABLES
    config,       \* the FormConfig the hook is called with
    valuesState,  \* React state cell behind `values` (queued updates applied)
    errorsState,  \* React state cell behind `errors` (queued updates applied)
    values,       \* `values` as captured by the current render's closures
    last,         \* the last call made on the hook and what it returned
    other,        \* a second useFormValidation instance, not in focus
    batch,        \* the handleChange calls made since the last render
    isActiveState,\* useToggle: React state cell behind `isActive`
    isActive,     \* useToggle: `isActive` as returned to the current render
    run,          \* useToggle: the toggle calls since the last explicit set
    copiedState,  \* useCopy: React state cell behind `copied`
    pending,      \* useCopy: copies whose clipboard write has not settled
    timers,       \* useCopy: scheduled reset timers, in firing order
    outcome,      \* useCopy: what became of each copy call
    innerWidth,   \* useBreakpoint: window.innerWidth
    breakpoint,   \* useBreakpoint: React state cell behind `breakpoint`
    phase,        \* useBreakpoint: server, render, mounted or unmounted
    resized       \* useBreakpoint: a resize event is queued

formVars == <<config, valuesState, errorsState, values, last, other, batch>>
toggleVars == <<isActiveState, isActive, run>>
copyVars == <<copiedState, pending, timers, outcome>>
\* The hooks other than useFormValidation.
breakpointVars == <<innerWidth, breakpoint, phase, resized>>
outsideForm == <<toggleVars, copyVars, breakpointVars>>

vars == <<formVars, toggleVars, copyVars, breakpointVars>>

\* ------------------------------------------------------------------ bounds

\* Longest generated field value of the single-field specification.
MaxLen == 2

\* Most argument-less toggle calls after one explicit set (or the mount).
MaxToggles == 10

\* Most calls of copy.
MaxCopies == 3

\* Widest window.
MaxWidth == 1700

\* --------------------------------------------------------- character classes

Lower == {"a","b","c","d","e","f","g","h","i","j","k","l","m",
          "n","o","p","q","r","s","t","u","v","w","x","y","z"}
Upper == {"A","B","C","D","E","F","G","H","I","J","K","L","M",
          "N","O","P","Q","R","S","T","U","V","W","X","Y","Z"}
Digit == {"0","1","2","3","4","5","6","7","8","9"}
Alnum == Lower \cup Upper \cup Digit

\* Number of positions of s whose character satisfies "in set" / "not in set".
CountIn(s, set) == Cardinality({i \in 1..Len(s) : s[i] \in set})
CountNotIn(s, set) == Cardinality({i \in 1..Len(s) : s[i] \notin set})

\* /^[a-zA-Z0-9._%+-]+@[a-zA-Z0-9.-]+\.[a-zA-Z]{2,}$/
emailRegex(s) ==
    \E at \in 1..Len(s) : \E dot \in 1..Len(s) :
        /\ s[at] = "@"
        /\ s[dot] = "."
        /\ at > 1
        /\ \A i \in 1..(at - 1) : s[i] \in Alnum \cup {".", "_", "%", "+", "-"}
        /\ dot > at + 1
        /\ \A i \in (at + 1)..(dot - 1) : s[i] \in Alnum \cup {".", "-"}
        /\ Len(s) - dot >= 2
        /\ \A i \in (dot + 1)..Len(s) : s[i] \in Lower \cup Upper

\* /[^a-zA-Z0-9@._\-+]/
emailBadChar(s) == CountNotIn(s, Alnum \cup {"@", ".", "_", "-", "+"}) > 0

\* value.match(specialCharRegex)?.length || 0, with /[^a-zA-Z0-9]/g
specialCharRegex(s) == CountNotIn(s, Alnum)
\* value.match(uppercaseRegex)?.length || 0, with /[A-Z]/g
uppercaseRegex(s) == CountIn(s, Upper)
\* value.match(numberRegex)?.length || 0, with /[0-9]/g
numberRegex(s) == CountIn(s, Digit)
\* /^\d+$/
onlyDigits(s) == Len(s) > 0 /\ CountNotIn(s, Digit) = 0
\* /[^\d]/
anyNonDigit(s) == CountNotIn(s, Digit) > 0

\* ------------------------------------------------------------ error messages

Null == <<>>
Required(who) == <<who, " is required.">>
InvalidEmailFormat == <<"Invalid email format.">>
EmailInvalidChars == <<"Email contains invalid characters.">>
PasswordMinLength(n) == <<"Password must be at least ", ToString(n), " characters.">>
PasswordMinSpecial(n) ==
    <<"Password must contain at least ", ToString(n), " special character(s).">>
PasswordMinUppercase(n) ==
    <<"Password must contain at least ", ToString(n), " uppercase letter(s).">>
PasswordMinNumbers(n) ==
    <<"Password must contain at least ", ToString(n), " number(s).">>
PasswordsDoNotMatch == <<"Passwords do not match.">>
TextOnlyNumbers == <<"Text cannot be only numbers.">>
AtLeast(kind, n, unit) == <<kind, " must be at least ", ToString(n), unit>>
AtMost(kind, n, unit) == <<kind, " must be at most ", ToString(n), unit>>
OnlyNumbersAllowed == <<"Only numbers are allowed.">>

\* ------------------------------------------------------------- FieldConfig

\* An optional property of a FieldConfig that is present.
Has(field, prop) == prop \in DOMAIN field
\* Truthiness of an optional number (absent and 0 are falsy).
Num(field, prop) == Has(field, prop) /\ field[prop] # 0
\* field.required
IsRequired(field) == Has(field, "required") /\ field.required
\* Mutant of LabelOr: `${field.label} is required.`, without the fallback.
LabelOnly(field, name) ==
    IF Has(field, "label") THEN field.label ELSE "undefined"

\* field.label || name
LabelOr(field, name) ==
    IF Has(field, "label") /\ field.label # "" THEN field.label ELSE name
\* field.matchField || "password"
MatchTarget(field) ==
    IF Has(field, "matchField") /\ field.matchField # "" THEN field.matchField
    ELSE "password"

\* {...prev, [name]: value}
Put(prev, name, value) ==
    [k \in (DOMAIN prev) \cup {name} |-> IF k = name THEN value ELSE prev[k]]

\* ----------------------------------------------------------- validateField

\* Mutant of emailRules: the character check runs before the format check.
emailRulesCharsFirst(field, value) ==
    IF value = <<>> THEN Null
    ELSE IF emailBadChar(value) THEN EmailInvalidChars
    ELSE IF ~emailRegex(value) THEN InvalidEmailFormat
    ELSE Null

\* if (field.type === "email" && value) { ... }
emailRules(field, value) ==
    IF value = <<>> THEN Null
    ELSE IF ~emailRegex(value) THEN InvalidEmailFormat
    ELSE IF emailBadChar(value) THEN EmailInvalidChars
    ELSE Null

\* Mutant of passwordChecks: the uppercase check runs before the
\* special-character check.
passwordChecksUpperFirst(field, value) ==
    IF Num(field, "minLength") /\ Len(value) < field.minLength
    THEN PasswordMinLength(field.minLength)
    ELSE IF Num(field, "minUppercase")
            /\ uppercaseRegex(value) < field.minUppercase
    THEN PasswordMinUppercase(field.minUppercase)
    ELSE IF Num(field, "minSpecialChars")
            /\ specialCharRegex(value) < field.minSpecialChars
    THEN PasswordMinSpecial(field.minSpecialChars)
    ELSE IF Num(field, "minNumbers") /\ numberRegex(value) < field.minNumbers
    THEN PasswordMinNumbers(field.minNumbers)
    ELSE Null

\* The body of the password block.
passwordChecks(field, value) ==
    IF Num(field, "minLength") /\ Len(value) < field.minLength
    THEN PasswordMinLength(field.minLength)
    ELSE IF Num(field, "minSpecialChars")
            /\ specialCharRegex(value) < field.minSpecialChars
    THEN PasswordMinSpecial(field.minSpecialChars)
    ELSE IF Num(field, "minUppercase")
            /\ uppercaseRegex(value) < field.minUppercase
    THEN PasswordMinUppercase(field.minUppercase)
    ELSE IF Num(field, "minNumbers") /\ numberRegex(value) < field.minNumbers
    THEN PasswordMinNumbers(field.minNumbers)
    ELSE Null

\* Mutant of passwordRules: the block's condition lacks its `&& value`.
passwordRulesUnguarded(field, value) == passwordChecks(field, value)

\* if (field.type === "password" && value) { ... }
passwordRules(field, value) ==
    IF value = <<>> THEN Null ELSE passwordChecks(field, value)

\* if (field.type === "repeatPassword" && value) { ... }
\* values[key] of a key the object lacks is undefined, which no string equals.
repeatPasswordRules(vals, field, value) ==
    IF value = <<>> THEN Null
    ELSE LET key == MatchTarget(field)
         IN  IF key \notin DOMAIN vals \/ value # vals[key]
             THEN PasswordsDoNotMatch
             ELSE Null

\* Mutant of lengthRules: maxLength is checked before minLength.
lengthRulesMaxFirst(field, value, kind, unit) ==
    IF Num(field, "maxLength") /\ Len(value) > field.maxLength
    THEN AtMost(kind, field.maxLength, unit)
    ELSE IF Num(field, "minLength") /\ Len(value) < field.minLength
    THEN AtLeast(kind, field.minLength, unit)
    ELSE Null

\* The two length checks that end the text, textarea and number blocks.
lengthRules(field, value, kind, unit) ==
    IF Num(field, "minLength") /\ Len(value) < field.minLength
    THEN AtLeast(kind, field.minLength, unit)
    ELSE IF Num(field, "maxLength") /\ Len(value) > field.maxLength
    THEN AtMost(kind, field.maxLength, unit)
    ELSE Null

\* if (field.type === "text" && value) { ... }
textRules(field, value) ==
    IF value = <<>> THEN Null
    ELSE IF onlyDigits(value) THEN TextOnlyNumbers
    ELSE lengthRules(field, value, "Text", " characters.")

\* if (field.type === "textarea" && value) { ... }
textareaRules(field, value) ==
    IF value = <<>> THEN Null
    ELSE lengthRules(field, value, "Textarea", " characters.")

\* Number(value) of a string of digits.
RECURSIVE NumericValue(_)
NumericValue(s) ==
    IF s = <<>> THEN 0
    ELSE 10 * NumericValue(SubSeq(s, 1, Len(s) - 1))
         + (CHOOSE d \in 0..9 : ToString(d) = s[Len(s)])

\* Mutant of numberRules: the bounds are compared with Number(value).
numberRulesNumeric(field, value) ==
    IF value = <<>> THEN Null
    ELSE IF anyNonDigit(value) THEN OnlyNumbersAllowed
    ELSE IF Num(field, "minLength") /\ NumericValue(value) < field.minLength
    THEN AtLeast("Number", field.minLength, " digits.")
    ELSE IF Num(field, "maxLength") /\ NumericValue(value) > field.maxLength
    THEN AtMost("Number", field.maxLength, " digits.")
    ELSE Null

\* if (field.type === "number" && value) { ... }
numberRules(field, value) ==
    IF value = <<>> THEN Null
    ELSE IF anyNonDigit(value) THEN OnlyNumbersAllowed
    ELSE lengthRules(field, value, "Number", " digits.")

\* The type blocks of validateField; field.type selects at most one of them.
typeRules(vals, field, value) ==
    CASE field.type = "email" -> emailRules(field, value)
      [] field.type = "password" -> passwordRules(field, value)
      [] field.type = "repeatPassword" -> repeatPasswordRules(vals, field, value)
      [] field.type = "text" -> textRules(field, value)
      [] field.type = "textarea" -> textareaRules(field, value)
      [] field.type = "number" -> numberRules(field, value)
      [] OTHER -> Null

\* Mutant of validateFieldWith: a name without FieldConfig is an error.
validateFieldUnknownFails(vals, name, value) ==
    IF name \notin DOMAIN config THEN <<name, " is not a field.">>
    ELSE LET field == config[name]
         IN  IF IsRequired(field) /\ value = <<>>
             THEN Required(LabelOr(field, name))
             ELSE typeRules(vals, field, value)

\* validateField with the `values` it closes over made a parameter.
validateFieldWith(vals, name, value) ==
    IF name \notin DOMAIN config THEN Null
    ELSE LET field == config[name]
         IN  IF IsRequired(field) /\ value = <<>>
             THEN Required(LabelOr(field, name))
             ELSE typeRules(vals, field, value)

\* validateField as the closures of the current render run it.
validateField(name, value) == validateFieldWith(values, name, value)

\* if (error) ...: a message is truthy, null is not.
Truthy(error) == error # Null

\* ------------------------------------------------------------------ inputs

\* Field values the form protocol is driven with: empty, a letter, a digit.
ProtocolValues == { <<>>, <<"a">>, <<"1">> }

\* A field name that no configuration declares.
Ghost == "ghost"

\* password + repeatPassword with the default matchField, as in the README.
CfgLogin ==
    [password |-> [type |-> "password", label |-> "Password",
                   required |-> TRUE, minNumbers |-> 1],
     repeatPassword |-> [type |-> "repeatPassword", required |-> TRUE]]
\* repeatPassword with an explicit matchField, next to a required text field.
CfgMatch ==
    [secret |-> [type |-> "text", label |-> "Secret", required |-> TRUE],
     again |-> [type |-> "repeatPassword", matchField |-> "secret"]]
\* Every field optional.
CfgOptional ==
    [nick |-> [type |-> "text", maxLength |-> 1],
     age |-> [type |-> "number", minLength |-> 1]]
\* repeatPassword whose matchField names no field of the config.
CfgDangling ==
    [again |-> [type |-> "repeatPassword", matchField |-> Ghost]]
\* repeatPassword whose matchField is its own key.
CfgSelf ==
    [again |-> [type |-> "repeatPassword", matchField |-> "again",
                required |-> TRUE]]
\* No field at all.
CfgEmpty == <<>>

\* Bounds of 0.
CfgZero == [pin |-> [type |-> "number", minLength |-> 0, maxLength |-> 0]]

FormConfigs ==
    {CfgLogin, CfgMatch, CfgOptional, CfgDangling, CfgSelf, CfgEmpty, CfgZero}

\* Characters of the generated values: a lower-case letter, an upper-case
\* letter, a digit and a special character.
Alphabet == {"a", "A", "1", "!"}

\* Values longer than MaxLen that the rules tell apart, pasted as a whole.
Samples ==
    { <<"a","@","b",".","c","o">>,         \* a@b.co
      <<"a","%","@","b",".","c","o">>,     \* a%@b.co
      <<"a","@","b",".","c","o","!">>,     \* a@b.co!
      <<"a","@","@","b",".","c","o">>,     \* a@@b.co
      <<"0","0","7">>,                     \* 007
      <<"1","2">>,                         \* 12
      <<"1","2","a">>,                     \* 12a
      <<"1","2","3","4","5">>,             \* 12345
      <<"a","b","c","d","e","f","g","h">>,       \* abcdefgh
      <<"A","b","c","d","e","f","1","!">>,       \* Abcdef1!
      <<"A","b","c","d","e","f","1","2","!">> }  \* Abcdef12!

\* What the content of an input element can become in one change event of
\* the single-field specification: a character typed at the end (up to
\* MaxLen characters), the last character of a typed value deleted, the
\* input cleared, or a sample pasted over it.
Edits(old) ==
    {Append(old, c) : c \in IF Len(old) < MaxLen THEN Alphabet ELSE {}}
    \cup (IF old = <<>> \/ Len(old) > MaxLen THEN {}
          ELSE {SubSeq(old, 1, Len(old) - 1)})
    \cup { <<>> }
    \cup Samples

\* The partial records {} and {prop: v} for v in vals: an optional property.
Optional(prop, vals) == { <<>> } \cup {[p \in {prop} |-> v] : v \in vals}

FieldTypes == {"email", "password", "repeatPassword", "text", "number", "textarea"}

\* required and label: optional fields without label, required fields with
\* no label, an empty label and a label.
RequiredAndLabel ==
    { <<>>,
      [required |-> FALSE],
      [required |-> FALSE, label |-> "Label"],
      [required |-> TRUE],
      [required |-> TRUE, label |-> ""],
      [required |-> TRUE, label |-> "Label"] }

\* Every FieldConfig over the options above: each type with each combination
\* of present and absent optional properties.
FieldConfigs ==
    { [type |-> t] @@ rl @@ minL @@ maxL @@ minS @@ minU @@ minN @@ mf :
        t \in FieldTypes,
        rl \in RequiredAndLabel,
        minL \in Optional("minLength", {2}),
        maxL \in Optional("maxLength", {1}),
        minS \in Optional("minSpecialChars", {1}),
        minU \in Optional("minUppercase", {1}),
        minN \in Optional("minNumbers", {1}),
        mf \in Optional("matchField", {Ghost}) }

\* The password field of the README's example form.
ReadmePassword ==
    [type |-> "password", label |-> "Password", required |-> TRUE,
     minLength |-> 8, minSpecialChars |-> 1, minUppercase |-> 1,
     minNumbers |-> 2]

\* Fields whose bounds no value of 2 characters meets (minLength 3 above
\* maxLength 1), and a number field of at least 3 digits.
BoundedFields ==
    { [type |-> "text", minLength |-> 3, maxLength |-> 1],
      [type |-> "textarea", minLength |-> 3, maxLength |-> 1],
      [type |-> "number", minLength |-> 3, maxLength |-> 1],
      [type |-> "number", minLength |-> 3] }

\* The key of the one field of a single-field form.
FieldKey == "field"

\* The forms with one field, of any FieldConfig.
FieldForms ==
    {[k \in {FieldKey} |-> fc] :
        fc \in FieldConfigs \cup {ReadmePassword} \cup BoundedFields}

\* ------------------------------------------------------------ the hook

\* const initialValues = {}; Object.keys(config).forEach(key => ... = "")
initialValues == [key \in DOMAIN config |-> <<>>]

\* The record kept of a call: the operation, its arguments, what it returned
\* (error: validateField's result in handleChange; valid: validateAll's
\* result) and the operation called before it.
Call(op, name, value, error, valid) ==
    [op |-> op, name |-> name, value |-> value, error |-> error,
     valid |-> valid, prev |-> last.op]

\* What one handleChange call wrote: the value and the error it computed.
Called(value, error) == [value |-> value, error |-> error]

\* useState(initialValues), useState({}) on the first render.
Mount(configs) ==
    /\ config \in configs
    /\ valuesState = initialValues
    /\ errorsState = <<>>
    /\ values = initialValues
    /\ last = [op |-> "mount", name |-> "", value |-> <<>>, error |-> Null,
               valid |-> TRUE, prev |-> "mount"]

\* No second instance.
Unmounted == <<>>

\* useToggle() and useCopy() on their first render.
ToggleMounted(initial) ==
    /\ isActiveState = initial
    /\ isActive = initial
    /\ run = [from |-> initial, n |-> 0, sameRender |-> 0]

CopyMounted ==
    /\ copiedState = FALSE
    /\ pending = {}
    /\ timers = <<>>
    /\ outcome = <<>>

\* useBreakpoint() rendered where there is no window.
BreakpointOnServer ==
    /\ innerWidth = -1
    /\ breakpoint = "desktopMedium"
    /\ phase = "server"
    /\ resized = FALSE

\* The hooks other than useFormValidation, on their first render.
OthersMounted == ToggleMounted(FALSE) /\ CopyMounted /\ BreakpointOnServer

Init == Mount(FormConfigs) /\ batch = <<>> /\ other = Unmounted /\ OthersMounted

\* Mutant of HandleChange: setErrors({[name]: ...}) without spreading prev.
HandleChangeNoSpread(name, value) ==
    /\ valuesState' = Put(valuesState, name, value)
    /\ errorsState' = Put(<<>>, name, validateField(name, value))
    /\ last' = Call("handleChange", name, value, validateField(name, value), TRUE)
    /\ batch' = Put(batch, name, Called(value, validateField(name, value)))
    /\ UNCHANGED <<config, values, other, outsideForm>>

\* Mutant of HandleChange: the value store is one object for all instances.
HandleChangeShared(name, value) ==
    /\ valuesState' = Put(valuesState, name, value)
    /\ errorsState' = Put(errorsState, name, validateField(name, value))
    /\ last' = Call("handleChange", name, value, validateField(name, value), TRUE)
    /\ batch' = Put(batch, name, Called(value, validateField(name, value)))
    /\ other' = IF other = <<>> THEN other
                ELSE [other EXCEPT !.valuesState = Put(@, name, value),
                                   !.values = Put(@, name, value)]
    /\ UNCHANGED <<config, values, outsideForm>>

\* Mutant of HandleChange: setValues({...values, [name]: value}), with the
\* render's values.
HandleChangeStaleSpread(name, value) ==
    /\ valuesState' = Put(values, name, value)
    /\ errorsState' = Put(errorsState, name, validateField(name, value))
    /\ last' = Call("handleChange", name, value, validateField(name, value), TRUE)
    /\ batch' = Put(batch, name, Called(value, validateField(name, value)))
    /\ UNCHANGED <<config, values, other, outsideForm>>

\* handleChange(e) with e.target = {name, value}.
HandleChange(name, value) ==
    /\ valuesState' = Put(valuesState, name, value)
    /\ errorsState' = Put(errorsState, name, validateField(name, value))
    /\ last' = Call("handleChange", name, value, validateField(name, value), TRUE)
    /\ batch' = Put(batch, name, Called(value, validateField(name, value)))
    /\ UNCHANGED <<config, values, other, outsideForm>>

\* Mutant of ValidateAll: setErrors(prev => ({...prev, ...newErrors})).
ValidateAllMerging ==
    LET newErrors == [name \in DOMAIN config |-> validateField(name, values[name])]
        valid == \A name \in DOMAIN config : ~Truthy(newErrors[name])
    IN  /\ errorsState' = [k \in (DOMAIN errorsState) \cup (DOMAIN config) |->
                              IF k \in DOMAIN config THEN newErrors[k]
                              ELSE errorsState[k]]
        /\ last' = Call("validateAll", "", <<>>, Null, valid)
        /\ batch' = <<>>
        /\ UNCHANGED <<config, valuesState, values, other, outsideForm>>

\* Mutant of ValidateAll: it fails on a config without fields.
ValidateAllNonEmpty ==
    LET newErrors == [name \in DOMAIN config |-> validateField(name, values[name])]
        valid == \A name \in DOMAIN config : ~Truthy(newErrors[name])
    IN  /\ DOMAIN config # {}
        /\ errorsState' = newErrors
        /\ last' = Call("validateAll", "", <<>>, Null, valid)
        /\ batch' = <<>>
        /\ UNCHANGED <<config, valuesState, values, other, outsideForm>>

\* validateAll(): newErrors is built from the render's `values`.
ValidateAll ==
    LET newErrors == [name \in DOMAIN config |-> validateField(name, values[name])]
        valid == \A name \in DOMAIN config : ~Truthy(newErrors[name])
    IN  /\ errorsState' = newErrors
        /\ last' = Call("validateAll", "", <<>>, Null, valid)
        /\ batch' = <<>>
        /\ UNCHANGED <<config, valuesState, values, other, outsideForm>>

\* Mutant of Reset: the error store is set to a null entry per config key.
ResetToNulls ==
    /\ valuesState' = initialValues
    /\ errorsState' = [key \in DOMAIN config |-> Null]
    /\ last' = Call("reset", "", <<>>, Null, TRUE)
    /\ batch' = <<>>
    /\ UNCHANGED <<config, values, other, outsideForm>>

\* reset(): setValues(initialValues); setErrors({})
Reset ==
    /\ valuesState' = initialValues
    /\ errorsState' = <<>>
    /\ last' = Call("reset", "", <<>>, Null, TRUE)
    /\ batch' = <<>>
    /\ UNCHANGED <<config, values, other, outsideForm>>

\* React renders the component again: useState returns the state cell.
Render ==
    /\ values' = valuesState
    /\ batch' = <<>>
    /\ UNCHANGED <<config, valuesState, errorsState, last, other, outsideForm>>

Change == \E name \in (DOMAIN config) \cup {Ghost} : \E value \in ProtocolValues :
              HandleChange(name, value)

Next == Change \/ ValidateAll \/ Reset \/ Render

Spec == Init /\ [][Next]_vars

\* The single-field specification: validateField over every FieldConfig and
\* every field value, applied by handleChange.
InitField ==
    Mount(FieldForms) /\ batch = <<>> /\ other = Unmounted /\ OthersMounted

ChangeField ==
    \E value \in Edits(valuesState[FieldKey]) : HandleChange(FieldKey, value)

NextField == ChangeField

SpecField == InitField /\ [][NextField]_vars

\* Two components, each calling useFormValidation: every call of the hook
\* has its own state cells and closures.  The instance in focus is held by
\* the variables of the hook, the other one is parked in `other`.
TwoConfigs == {CfgSelf, CfgDangling}

\* What validateField of the instance in focus returns, for every argument.
Results ==
    [name \in (DOMAIN config) \cup {Ghost} |->
        [value \in ProtocolValues |-> validateField(name, value)]]

\* useFormValidation(cfg) after its first render, validateField not yet
\* called.
Instance(cfg) ==
    [config |-> cfg,
     valuesState |-> [key \in DOMAIN cfg |-> <<>>],
     errorsState |-> <<>>,
     values |-> [key \in DOMAIN cfg |-> <<>>],
     results |-> <<>>]

\* The caller turns to the other instance; the one it leaves is parked with
\* the validation results it gives at that moment.
Focus ==
    /\ other # Unmounted
    /\ config' = other.config
    /\ valuesState' = other.valuesState
    /\ errorsState' = other.errorsState
    /\ values' = other.values
    /\ other' = [config |-> config, valuesState |-> valuesState,
                 errorsState |-> errorsState, values |-> values,
                 results |-> Results]
    /\ last' = Call("focus", "", <<>>, Null, other.results # <<>>)
    /\ batch' = <<>>
    /\ UNCHANGED outsideForm

InitTwo ==
    /\ Mount(TwoConfigs)
    /\ batch = <<>>
    /\ other \in {Instance(cfg) : cfg \in TwoConfigs}
    /\ OthersMounted

ChangeTwo == \E name \in DOMAIN config : \E value \in ProtocolValues :
                 HandleChange(name, value)

NextTwo == ChangeTwo \/ ValidateAll \/ Reset \/ Render \/ Focus

SpecTwo == InitTwo /\ [][NextTwo]_vars

\* ----------------------------------------------------------------- useToggle

\* toggle() is called with a boolean or with nothing.
NoArg == <<>>
ToggleArgs == {NoArg, <<TRUE>>, <<FALSE>>}

\* Mutant of Toggle: setIsActive(!isActive), with the render's isActive.
ToggleStale(value) ==
    /\ IF value # NoArg
       THEN /\ isActiveState' = value[1]
            /\ run' = [from |-> value[1], n |-> 0, sameRender |-> 0]
       ELSE /\ run.n < MaxToggles
            /\ isActiveState' = ~isActive
            /\ run' = [run EXCEPT !.n = @ + 1, !.sameRender = @ + 1]
    /\ UNCHANGED <<isActive, formVars, copyVars, breakpointVars>>

\* toggle(value): setIsActive(value) for a boolean, else setIsActive(s => !s);
\* React hands the updater the state as the earlier calls left it.
Toggle(value) ==
    /\ IF value # NoArg
       THEN /\ isActiveState' = value[1]
            /\ run' = [from |-> value[1], n |-> 0, sameRender |-> 0]
       ELSE /\ run.n < MaxToggles
            /\ isActiveState' = ~isActiveState
            /\ run' = [run EXCEPT !.n = @ + 1, !.sameRender = @ + 1]
    /\ UNCHANGED <<isActive, formVars, copyVars, breakpointVars>>

ToggleCall == \E value \in ToggleArgs : Toggle(value)

\* The component renders again: useState returns the state cell.
RenderToggle ==
    /\ isActive' = isActiveState
    /\ run' = [run EXCEPT !.sameRender = 0]
    /\ UNCHANGED <<isActiveState, formVars, copyVars, breakpointVars>>

InitToggle ==
    /\ Mount({CfgEmpty})
    /\ batch = <<>>
    /\ other = Unmounted
    /\ \E initial \in BOOLEAN : ToggleMounted(initial)
    /\ CopyMounted
    /\ BreakpointOnServer

NextToggle == ToggleCall \/ RenderToggle

SpecToggle == InitToggle /\ [][NextToggle]_vars

\* ------------------------------------------------------------------- useCopy

\* copy(text) up to its await: navigator.clipboard.writeText(text) is under
\* way.  Copies are numbered in call order.
Copy ==
    /\ Len(outcome) < MaxCopies
    /\ pending' = pending \cup {Len(outcome) + 1}
    /\ outcome' = Append(outcome, "pending")
    /\ UNCHANGED <<copiedState, timers, formVars, toggleVars, breakpointVars>>

\* Mutant of WriteResolves: setCopied(true) without the setTimeout.
WriteResolvesNoTimer(id) ==
    /\ id \in pending
    /\ pending' = pending \ {id}
    /\ copiedState' = TRUE
    /\ outcome' = [outcome EXCEPT ![id] = "written"]
    /\ UNCHANGED <<timers, formVars, toggleVars, breakpointVars>>

\* The write of copy `id` resolved: setCopied(true); setTimeout(...).
\* All timers have the delay resetTimeout and fire in the order they were set.
WriteResolves(id) ==
    /\ id \in pending
    /\ pending' = pending \ {id}
    /\ copiedState' = TRUE
    /\ timers' = Append(timers, id)
    /\ outcome' = [outcome EXCEPT ![id] = "written"]
    /\ UNCHANGED <<formVars, toggleVars, breakpointVars>>

\* The write of copy `id` threw or rejected: catch (e) { setCopied(false) }.
WriteRejects(id) ==
    /\ id \in pending
    /\ pending' = pending \ {id}
    /\ copiedState' = FALSE
    /\ outcome' = [outcome EXCEPT ![id] = "failed"]
    /\ UNCHANGED <<timers, formVars, toggleVars, breakpointVars>>

Resolve == \E id \in pending : WriteResolves(id)

Reject == \E id \in pending : WriteRejects(id)

\* The earliest timer fires: () => setCopied(false).
TimerFires ==
    /\ timers # <<>>
    /\ copiedState' = FALSE
    /\ timers' = Tail(timers)
    /\ outcome' = [outcome EXCEPT ![Head(timers)] = "reset"]
    /\ UNCHANGED <<pending, formVars, toggleVars, breakpointVars>>

InitCopy ==
    /\ Mount({CfgEmpty})
    /\ batch = <<>>
    /\ other = Unmounted
    /\ OthersMounted

NextCopy == Copy \/ Resolve \/ Reject \/ TimerFires

\* A timer that was set fires after its delay.
SpecCopy == InitCopy /\ [][NextCopy]_vars /\ WF_vars(TimerFires)

\* -------------------------------------------------------------- useBreakpoint

\* Mutant of getBreakpoint: the comparisons are < instead of <=.
getBreakpointStrict(width) ==
    IF width < 320 THEN "smartwatch"
    ELSE IF width < 390 THEN "mobileSmall"
    ELSE IF width < 480 THEN "mobileLarge"
    ELSE IF width < 600 THEN "phablet"
    ELSE IF width < 768 THEN "tabletSmall"
    ELSE IF width < 991 THEN "tabletLarge"
    ELSE IF width < 1200 THEN "desktopSmall"
    ELSE IF width < 1440 THEN "desktopMedium"
    ELSE IF width < 1600 THEN "desktopLarge"
    ELSE "widescreen"

getBreakpoint(width) ==
    IF width <= 320 THEN "smartwatch"
    ELSE IF width <= 390 THEN "mobileSmall"
    ELSE IF width <= 480 THEN "mobileLarge"
    ELSE IF width <= 600 THEN "phablet"
    ELSE IF width <= 768 THEN "tabletSmall"
    ELSE IF width <= 991 THEN "tabletLarge"
    ELSE IF width <= 1200 THEN "desktopSmall"
    ELSE IF width <= 1440 THEN "desktopMedium"
    ELSE IF width <= 1600 THEN "desktopLarge"
    ELSE "widescreen"

\* The object the hook returns for a render with the state `bp`.
Returned(bp) ==
    [isSmartwatch |-> bp = "smartwatch",
     isMobileSmall |-> bp = "mobileSmall",
     isMobileLarge |-> bp = "mobileLarge",
     isPhablet |-> bp = "phablet",
     isTabletSmall |-> bp = "tabletSmall",
     isTabletLarge |-> bp = "tabletLarge",
     isDesktopSmall |-> bp = "desktopSmall",
     isDesktopMedium |-> bp = "desktopMedium",
     isDesktopLarge |-> bp = "desktopLarge",
     isWidescreen |-> bp = "widescreen",
     breakpoint |-> bp]

\* The breakpoints of the README: name, flag, first and last width in px
\* (widescreen has no last width).
Table ==
    << [name |-> "smartwatch", flag |-> "isSmartwatch", lo |-> 0, hi |-> 320],
       [name |-> "mobileSmall", flag |-> "isMobileSmall", lo |-> 321, hi |-> 390],
       [name |-> "mobileLarge", flag |-> "isMobileLarge", lo |-> 391, hi |-> 480],
       [name |-> "phablet", flag |-> "isPhablet", lo |-> 481, hi |-> 600],
       [name |-> "tabletSmall", flag |-> "isTabletSmall", lo |-> 601, hi |-> 768],
       [name |-> "tabletLarge", flag |-> "isTabletLarge", lo |-> 769, hi |-> 991],
       [name |-> "desktopSmall", flag |-> "isDesktopSmall", lo |-> 992, hi |-> 1200],
       [name |-> "desktopMedium", flag |-> "isDesktopMedium", lo |-> 1201, hi |-> 1440],
       [name |-> "desktopLarge", flag |-> "isDesktopLarge", lo |-> 1441, hi |-> 1600],
       [name |-> "widescreen", flag |-> "isWidescreen", lo |-> 1601] >>

\* Window widths the window takes: 0, the widest one, and the two widths on
\* either side of every limit between two breakpoints.
Widths ==
    {0, MaxWidth} \cup {Table[i].lo : i \in DOMAIN Table}
                 \cup {Table[i].lo - 1 : i \in 2..Len(Table)}

\* useState's initializer in a browser: getBreakpoint(window.innerWidth).
BreakpointRendered ==
    /\ innerWidth \in Widths
    /\ breakpoint = getBreakpoint(innerWidth)
    /\ phase = "render"
    /\ resized = FALSE

\* The user resizes the window; the browser queues a resize event.
WindowResizes ==
    /\ phase # "server"
    /\ \E width \in Widths \ {innerWidth} : innerWidth' = width
    /\ resized' = TRUE
    /\ UNCHANGED <<breakpoint, phase, formVars, toggleVars, copyVars>>

\* useEffect after the first render: addEventListener; handleResize().
MountEffect ==
    /\ phase = "render"
    /\ phase' = "mounted"
    /\ breakpoint' = getBreakpoint(innerWidth)
    /\ UNCHANGED <<innerWidth, resized, formVars, toggleVars, copyVars>>

\* The queued resize event is dispatched; handleResize runs if it listens.
ResizeEvent ==
    /\ resized
    /\ resized' = FALSE
    /\ breakpoint' = IF phase = "mounted" THEN getBreakpoint(innerWidth)
                     ELSE breakpoint
    /\ UNCHANGED <<innerWidth, phase, formVars, toggleVars, copyVars>>

\* The effect's cleanup: removeEventListener.
Unmount ==
    /\ phase = "mounted"
    /\ phase' = "unmounted"
    /\ UNCHANGED <<innerWidth, breakpoint, resized, formVars, toggleVars, copyVars>>

InitBreakpoint ==
    /\ Mount({CfgEmpty})
    /\ batch = <<>>
    /\ other = Unmounted
    /\ ToggleMounted(FALSE)
    /\ CopyMounted
    /\ BreakpointOnServer \/ BreakpointRendered

NextBreakpoint == WindowResizes \/ MountEffect \/ ResizeEvent \/ Unmount

SpecBreakpoint == InitBreakpoint /\ [][NextBreakpoint]_vars

\* ------------------------------------------------------ claims on the protocol

\* The stores hold what a validation of all current values would give.
ConsistentWith(vals, errs) ==
    \A k \in DOMAIN config :
        /\ k \in DOMAIN errs
        /\ errs[k] = validateFieldWith(vals, k, vals[k])

\* Every repeatPassword field of the config matches another declared field:
\* a form without configuration error.
WellFormed ==
    \A k \in DOMAIN config :
        config[k].type = "repeatPassword" =>
            /\ MatchTarget(config[k]) \in DOMAIN config
            /\ MatchTarget(config[k]) # k

\* C1: after validateAll, errors[k] = validateField(k, values[k]) for every
\* config key k, evaluated against the value store as every earlier
\* handleChange and reset left it, re-rendered or not (stated for the forms
\* without configuration error).
C1_ValidateAllConsistent ==
    (WellFormed /\ last.op = "validateAll") =>
        ConsistentWith(valuesState, errorsState)

\* C2: validateAll replaces the whole error store with one entry per config
\* key (entries of unconfigured keys are dropped) and returns true iff every
\* entry it writes is null.
C2_ValidateAllReplaces ==
    last.op = "validateAll" =>
        /\ DOMAIN errorsState = DOMAIN config
        /\ last.valid <=> \A k \in DOMAIN config : errorsState[k] = Null

\* C2 witness: validateAll ran after an update of an unconfigured name and
\* found an error.
C2_Witness ==
    /\ last.op = "validateAll"
    /\ last.prev = "handleChange"
    /\ Ghost \in DOMAIN valuesState
    /\ Ghost \notin DOMAIN config
    /\ ~last.valid
    /\ Ghost \notin DOMAIN errorsState

\* Every entry of store `before` but that of `name` is in `after`, unchanged,
\* and `after` has no other key than those of `before` and `name`.
FrameExcept(before, after, name) ==
    /\ DOMAIN after = (DOMAIN before) \cup {name}
    /\ \A k \in (DOMAIN before) \ {name} : after[k] = before[k]

\* C3: update(name, value) on a configured field changes only values[name]
\* and errors[name]; every other entry of both stores stays as it was, the
\* error entry of a repeatPassword field that matches `name` included.
C3_UpdateFrame ==
    [][\A name \in DOMAIN config : \A value \in ProtocolValues :
          HandleChange(name, value) =>
              /\ FrameExcept(valuesState, valuesState', name)
              /\ FrameExcept(errorsState, errorsState', name)]_vars

\* C3 witness: the target of a repeatPassword field was just updated, and the
\* repeatPassword field still carries the "no error" of its own last update
\* although its value now differs from the target's.
C3_Witness ==
    /\ config = CfgMatch
    /\ last.op = "handleChange"
    /\ last.name = "secret"
    /\ "again" \in DOMAIN errorsState
    /\ errorsState["again"] = Null
    /\ valuesState["again"] # <<>>
    /\ valuesState["again"] # valuesState["secret"]

\* C4: in every reachable state the key set of the value store is exactly
\* the key set of the config.
C4_ValueKeysAreConfigKeys == DOMAIN valuesState = DOMAIN config

\* C5: validating a non-empty repeatPassword value yields "Passwords do not
\* match." exactly when it differs from the value stored for the target
\* field by the most recent update of the target, also one issued just
\* before in the same event handler.
C5_RepeatPasswordUsesStoredTarget ==
    (/\ last.op = "handleChange"
     /\ last.name \in DOMAIN config
     /\ config[last.name].type = "repeatPassword"
     /\ MatchTarget(config[last.name]) # last.name
     /\ MatchTarget(config[last.name]) \in DOMAIN config
     /\ last.value # <<>>)
    => LET target == MatchTarget(config[last.name])
       IN  last.error = PasswordsDoNotMatch
           <=> (target \notin DOMAIN valuesState
                \/ valuesState[target] # last.value)

\* C6: after reset every config key maps to the empty string in the value
\* store and the error store has no entry at all.
C6_ResetClears ==
    last.op = "reset" =>
        /\ DOMAIN valuesState = DOMAIN config
        /\ \A k \in DOMAIN config : valuesState[k] = <<>>
        /\ DOMAIN errorsState = {}

\* C6 witness: reset was called while a non-empty value and the value of an
\* unconfigured name were on screen.
C6_Witness ==
    /\ last.op = "reset"
    /\ Ghost \in DOMAIN values
    /\ \E k \in DOMAIN config : values[k] # <<>>

\* C7: reset() followed by validateAll() returns false and records the
\* required-error of every required field when the config has one, and
\* returns true when every field is optional (stated for the forms without
\* configuration error).
C7_ResetThenValidateAll ==
    (WellFormed /\ last.op = "validateAll" /\ last.prev = "reset") =>
        /\ last.valid <=> \A k \in DOMAIN config : ~IsRequired(config[k])
        /\ \A k \in DOMAIN config :
               IsRequired(config[k]) =>
                   errorsState[k] = Required(LabelOr(config[k], k))

\* C8: validateAll called twice with no update or reset in between yields
\* the same error store and the same return value both times (stated for
\* the forms without configuration error).
C8_ValidateAllIdempotent ==
    [][(WellFormed /\ last.op = "validateAll" /\ last'.op = "validateAll") =>
          (errorsState' = errorsState /\ last'.valid = last.valid)]_vars

\* ------------------------------------------------- claims on validateField

\* The last call was handleChange on the configured field `last.name`.
Validated == last.op = "handleChange" /\ last.name \in DOMAIN config

\* C9: for every field type, a required field with the empty string as value
\* validates to "<label> is required.", with the field key for the label
\* when no label is configured, whatever type-specific rules the field has.
C9_RequiredEmpty ==
    (Validated /\ IsRequired(config[last.name]) /\ last.value = <<>>) =>
        LET field == config[last.name]
            labelled == Has(field, "label") /\ field.label # ""
        IN  /\ labelled => last.error = <<field.label, " is required.">>
            /\ ~labelled => last.error = <<last.name, " is required.">>

\* C9 witness: a required password field without label, with a minimum
\* length, was typed into and then cleared, and got the required-error
\* under its key.
C9_Witness ==
    /\ Validated
    /\ last.prev = "handleChange"
    /\ last.value = <<>>
    /\ config[last.name].type = "password"
    /\ IsRequired(config[last.name])
    /\ ~Has(config[last.name], "label")
    /\ Num(config[last.name], "minLength")
    /\ errorsState[last.name] = <<last.name, " is required.">>

\* C10: for every field type and every combination of minLength, maxLength,
\* minSpecialChars, minUppercase, minNumbers and matchField, a field that is
\* not required validates the empty string to no error.
C10_OptionalEmpty ==
    (Validated /\ ~IsRequired(config[last.name]) /\ last.value = <<>>) =>
        last.error = Null

\* C10 witness: an optional password field with every minimum set was typed
\* into and then cleared, and has no error.
C10_Witness ==
    /\ Validated
    /\ last.prev = "handleChange"
    /\ last.value = <<>>
    /\ config[last.name].type = "password"
    /\ Has(config[last.name], "required") /\ ~config[last.name].required
    /\ Num(config[last.name], "minLength")
    /\ Num(config[last.name], "minSpecialChars")
    /\ Num(config[last.name], "minUppercase")
    /\ Num(config[last.name], "minNumbers")
    /\ Has(config[last.name], "matchField")
    /\ errorsState[last.name] = Null

\* The field and the value of the last validation.
LastField == config[last.name]
\* The last call validated a non-empty value of a field of type `type`.
ValidatedAs(type) ==
    Validated /\ LastField.type = type /\ last.value # <<>>

\* C11: for a non-empty password value the checks run in the order minLength,
\* minSpecialChars (non-alphanumeric characters), minUppercase, minNumbers
\* (digits); the error is that of the first check that fails and there is
\* none when no check fails.  With the README's bounds (8, 1, 1, 2):
\* abcdefgh gives the special-character error, Abcdef1! the numbers error,
\* Abcdef12! none.
C11_PasswordOrder ==
    ValidatedAs("password") =>
        LET f == LastField
            v == last.value
            short == Num(f, "minLength") /\ Len(v) < f.minLength
            fewSpecial == Num(f, "minSpecialChars")
                          /\ CountNotIn(v, Alnum) < f.minSpecialChars
            fewUpper == Num(f, "minUppercase")
                        /\ CountIn(v, Upper) < f.minUppercase
            fewDigits == Num(f, "minNumbers")
                         /\ CountIn(v, Digit) < f.minNumbers
        IN  /\ short => last.error = PasswordMinLength(f.minLength)
            /\ (~short /\ fewSpecial) =>
                   last.error = PasswordMinSpecial(f.minSpecialChars)
            /\ (~short /\ ~fewSpecial /\ fewUpper) =>
                   last.error = PasswordMinUppercase(f.minUppercase)
            /\ (~short /\ ~fewSpecial /\ ~fewUpper /\ fewDigits) =>
                   last.error = PasswordMinNumbers(f.minNumbers)
            /\ (~short /\ ~fewSpecial /\ ~fewUpper /\ ~fewDigits) =>
                   last.error = Null
            /\ (f = ReadmePassword /\ v = <<"a","b","c","d","e","f","g","h">>) =>
                   last.error = <<"Password must contain at least ", "1",
                                  " special character(s).">>
            /\ (f = ReadmePassword /\ v = <<"A","b","c","d","e","f","1","!">>) =>
                   last.error = <<"Password must contain at least ", "2",
                                  " number(s).">>
            /\ (f = ReadmePassword
                /\ v = <<"A","b","c","d","e","f","1","2","!">>) =>
                   last.error = Null

\* C11 witness: the README's password field holds Abcdef1! and carries the
\* numbers error.
C11_Witness ==
    /\ ValidatedAs("password")
    /\ LastField = ReadmePassword
    /\ last.value = <<"A","b","c","d","e","f","1","!">>
    /\ errorsState[last.name] = PasswordMinNumbers(2)

\* C12: for a non-empty email value the format check runs before the
\* character check: a value that does not match the pattern (one @, a
\* domain with a dot) yields "Invalid email format."; a value that matches
\* it but has a character other than letters, digits and @ . _ - + yields
\* "Email contains invalid characters."; any other value yields no error.
C12_EmailOrder ==
    ValidatedAs("email") =>
        LET v == last.value
            matches == emailRegex(v)
            foreign == \E i \in 1..Len(v) :
                           v[i] \notin Alnum \cup {"@", ".", "_", "-", "+"}
            ats == {i \in 1..Len(v) : v[i] = "@"}
        IN  /\ ~matches => last.error = InvalidEmailFormat
            /\ (matches /\ foreign) => last.error = EmailInvalidChars
            /\ (matches /\ ~foreign) => last.error = Null
            /\ Cardinality(ats) # 1 => last.error = InvalidEmailFormat
            /\ (\A a \in ats : \A i \in (a + 2)..(Len(v) - 2) : v[i] # ".") =>
                   last.error = InvalidEmailFormat
            /\ v = <<"a","@","b",".","c","o">> => last.error = Null
            /\ v = <<"a","%","@","b",".","c","o">> =>
                   last.error = <<"Email contains invalid characters.">>
            /\ v = <<"a","@","b",".","c","o","!">> =>
                   last.error = <<"Invalid email format.">>

\* C12 witness: an email field holds a%@b.co, which matches the pattern and
\* carries the character error.
C12_Witness ==
    /\ ValidatedAs("email")
    /\ last.value = <<"a","%","@","b",".","c","o">>
    /\ emailRegex(last.value)
    /\ errorsState[last.name] = EmailInvalidChars

\* What the two length checks give for value v of field f: the minLength
\* error when v is too short, else the maxLength error when it is too long.
LengthError(f, v, kind, unit) ==
    LET tooShort == Num(f, "minLength") /\ Len(v) < f.minLength
        tooLong == Num(f, "maxLength") /\ Len(v) > f.maxLength
    IN  IF tooShort THEN <<kind, " must be at least ", ToString(f.minLength), unit>>
        ELSE IF tooLong
        THEN <<kind, " must be at most ", ToString(f.maxLength), unit>>
        ELSE <<>>

\* C13: for a non-empty text value, a value made only of digits yields
\* "Text cannot be only numbers." whatever the length bounds; otherwise
\* minLength is checked before maxLength and the first violated bound gives
\* the length error.  A textarea value gets the same two length checks and
\* a digits-only value is not rejected.
C13_TextAndTextarea ==
    /\ ValidatedAs("text") =>
           LET allDigits == \A i \in 1..Len(last.value) : last.value[i] \in Digit
           IN  /\ allDigits => last.error = <<"Text cannot be only numbers.">>
               /\ ~allDigits =>
                      last.error = LengthError(LastField, last.value,
                                               "Text", " characters.")
    /\ ValidatedAs("textarea") =>
           last.error = LengthError(LastField, last.value,
                                    "Textarea", " characters.")

\* C13 witness: a text field with minLength 3 and maxLength 1 holds two
\* letters, which violate both bounds, and carries the minLength error.
C13_Witness ==
    /\ ValidatedAs("text")
    /\ Num(LastField, "minLength") /\ Num(LastField, "maxLength")
    /\ Len(last.value) < LastField.minLength
    /\ Len(last.value) > LastField.maxLength
    /\ errorsState[last.name] = AtLeast("Text", 3, " characters.")

\* C14: for a non-empty number value any non-digit character yields "Only
\* numbers are allowed."; otherwise minLength and maxLength are compared
\* with the number of digits of the string, never with its numeric value:
\* 007 satisfies minLength 3, 12 violates it.
C14_NumberDigitCount ==
    ValidatedAs("number") =>
        LET f == LastField
            v == last.value
            nonDigit == \E i \in 1..Len(v) : v[i] \notin Digit
        IN  /\ nonDigit => last.error = <<"Only numbers are allowed.">>
            /\ ~nonDigit => last.error = LengthError(f, v, "Number", " digits.")
            /\ (f = [type |-> "number", minLength |-> 3] /\ v = <<"0","0","7">>) =>
                   last.error = Null
            /\ (f = [type |-> "number", minLength |-> 3] /\ v = <<"1","2">>) =>
                   last.error = <<"Number", " must be at least ", "3", " digits.">>

\* C14 witness: a number field with minLength 3 holds 12 and carries the
\* minLength error.
C14_Witness ==
    /\ ValidatedAs("number")
    /\ LastField = [type |-> "number", minLength |-> 3]
    /\ last.value = <<"1","2">>
    /\ errorsState[last.name] = AtLeast("Number", 3, " digits.")

\* C15: update(name, value) with a name that is not a key of the config does
\* not raise, computes no error for that name, and leaves the entries of
\* every other key of the value store and of the error store unchanged.
C15_UnconfiguredUpdate ==
    [][\A value \in ProtocolValues :
          /\ ENABLED HandleChange(Ghost, value)
          /\ HandleChange(Ghost, value) =>
                 /\ FrameExcept(valuesState, valuesState', Ghost)
                 /\ FrameExcept(errorsState, errorsState', Ghost)
                 /\ errorsState'[Ghost] = Null
                 /\ last'.error = Null]_vars

\* C15 witness: an unconfigured name was just updated while a configured
\* field held a value and an error; both are still there.
C15_Witness ==
    /\ last.op = "handleChange"
    /\ last.name = Ghost
    /\ Ghost \notin DOMAIN config
    /\ last.value # <<>>
    /\ errorsState[Ghost] = Null
    /\ \E k \in DOMAIN config :
           /\ valuesState[k] # <<>>
           /\ k \in DOMAIN errorsState
           /\ errorsState[k] # Null

\* C16: for a repeatPassword field whose matchField names a key that is not
\* in the config, every validation of a non-empty value, by handleChange or
\* by validateAll, yields "Passwords do not match.", in every reachable
\* state.
C16_DanglingAlwaysMismatch ==
    [][\A k \in DOMAIN config :
          (/\ config[k].type = "repeatPassword"
           /\ MatchTarget(config[k]) \notin DOMAIN config)
          => /\ \A value \in ProtocolValues \ {<<>>} :
                    HandleChange(k, value)
                        => errorsState'[k] = PasswordsDoNotMatch
             /\ (ValidateAll /\ values[k] # <<>>)
                    => errorsState'[k] = PasswordsDoNotMatch]_vars

\* An error message: a non-empty string, here the parts of its template.
IsMessage(error) == error \in Seq(STRING) /\ error # <<>>

\* C17: handleChange, validateAll and reset complete in every reachable
\* state, for every config (empty, without optional bounds, with bounds of 0,
\* with a dangling or self-referencing matchField) and every value, for
\* configured and unconfigured names; a validation failure only ever shows as
\* a string in the error store, every other entry being null, and validateAll
\* returns a boolean.
C17_Total ==
    /\ \A name \in (DOMAIN config) \cup {Ghost} : \A value \in ProtocolValues :
           ENABLED HandleChange(name, value)
    /\ ENABLED ValidateAll
    /\ ENABLED Reset
    /\ \A k \in DOMAIN errorsState :
           errorsState[k] = Null \/ IsMessage(errorsState[k])
    /\ last.error = Null \/ IsMessage(last.error)
    /\ last.valid \in BOOLEAN

\* C17 witness: with bounds of 0, a change and then validateAll completed
\* and left a message in the error store.
C17_Witness ==
    /\ config = CfgZero
    /\ last.op = "validateAll"
    /\ last.prev = "handleChange"
    /\ ~last.valid
    /\ errorsState["pin"] = OnlyNumbersAllowed

\* C18: two instances share no mutable state.  Whatever is called on the
\* instance in focus, the value store, the error store and the render's
\* values of the other instance stay as they are, and when the other
\* instance is turned to again its stores are the ones it was left with and
\* validateField returns for every argument what it returned then; also when
\* both instances are built from the same config.
C18_Isolated ==
    [][/\ ~Focus => other' = other
       /\ Focus =>
              /\ valuesState' = other.valuesState
              /\ errorsState' = other.errorsState
              /\ other.results # <<>> =>
                     \A name \in (DOMAIN other.config) \cup {Ghost} :
                         \A value \in ProtocolValues :
                             validateField(name, value)'
                                 = other.results[name][value]]_vars

\* C18 witness: an instance that had been left is in focus again, after a
\* change on the other instance of the same config that made the two value
\* stores differ.
C18_Witness ==
    /\ last.op = "focus"
    /\ last.valid
    /\ last.prev = "handleChange"
    /\ other # Unmounted
    /\ config = other.config
    /\ other.valuesState["again"] # <<>>
    /\ valuesState["again"] = <<>>

\* The state after run.n argument-less toggles from run.from.
Parity == IF run.n % 2 = 0 THEN run.from ELSE ~run.from

\* C19: toggle(b) with a boolean b sets the state to b whatever it was;
\* toggle() sets it to the negation of the state the earlier toggle calls
\* produced, those of the same render included, so that n argument-less
\* toggles from s end in s for even n and in not s for odd n; the next render
\* returns that state as isActive.
C19_Toggle ==
    [][/\ \A value \in ToggleArgs :
              Toggle(value) =>
                  /\ value # NoArg => isActiveState' = value[1]
                  /\ value = NoArg => isActiveState' = ~isActiveState
                  /\ isActiveState' = Parity'
       /\ RenderToggle => isActive' = Parity]_vars

\* C19 witness: three argument-less toggles within one render; the state is
\* the negation of the one they started from, which the render still shows.
C19_Witness ==
    /\ run.n = 3
    /\ run.sameRender = 3
    /\ isActiveState = ~run.from
    /\ isActive = run.from

\* C20: a copy whose clipboard write succeeds sets copied to true and sets
\* its timer, and when that timer fires, which it eventually does, copied is
\* set to false; a copy whose write fails sets copied to false and sets no
\* timer.
C20_Copy ==
    /\ [][\A id \in 1..MaxCopies :
              /\ WriteResolves(id) =>
                     copiedState' /\ timers' = Append(timers, id)
              /\ WriteRejects(id) => ~copiedState' /\ timers' = timers]_vars
    /\ [][TimerFires =>
              ~copiedState' /\ outcome'[Head(timers)] = "reset"]_vars
    /\ \A id \in 1..MaxCopies :
           (id \in DOMAIN outcome /\ outcome[id] = "written")
               ~> (id \in DOMAIN outcome /\ outcome[id] = "reset")

\* C20 witness: the first copy succeeded and its timer has fired, the second
\* one failed; copied is false and no timer is left.
C20_Witness ==
    /\ Len(outcome) >= 2
    /\ outcome[1] = "reset"
    /\ outcome[2] = "failed"
    /\ ~copiedState
    /\ timers = <<>>

\* Width w lies in the band of the README table.
InBand(w, band) == w >= band.lo /\ ("hi" \in DOMAIN band => w <= band.hi)

\* C21: the bands of the README table cover every width from 0 on without
\* overlap and getBreakpoint maps a width to the band that holds it; once
\* the hook is mounted and every resize event has been handled, breakpoint
\* is the band of the window's width and, of the flags, exactly that band's
\* is true.
C21_Breakpoint ==
    /\ \A w \in 0..MaxWidth :
           /\ Cardinality({i \in DOMAIN Table : InBand(w, Table[i])}) = 1
           /\ \A i \in DOMAIN Table :
                  InBand(w, Table[i]) => getBreakpoint(w) = Table[i].name
    /\ (phase = "mounted" /\ ~resized) =>
           \A i \in DOMAIN Table :
               /\ Returned(breakpoint)[Table[i].flag]
                      = InBand(innerWidth, Table[i])
               /\ InBand(innerWidth, Table[i])
                      => Returned(breakpoint).breakpoint = Table[i].name

\* C21 witness: the hook is mounted, no resize event is queued and the window
\* is 321 px wide, the first width of mobileSmall.
C21_Witness ==
    /\ phase = "mounted"
    /\ ~resized
    /\ innerWidth = 321
    /\ breakpoint = "mobileSmall"
    /\ Returned(breakpoint).isMobileSmall
    /\ ~Returned(breakpoint).isSmartwatch

\* C22: handleChange(name, value) writes the value store before it
\* validates, so that the validation it runs sees values[name] = value: the
\* error it stores is the one validateField gives over the values with that
\* write applied.  In particular a repeatPassword field whose matchField is
\* its own key gets no mismatch error for a non-empty value.
C22_WriteBeforeValidate ==
    [][\A name \in DOMAIN config : \A value \in ProtocolValues :
          HandleChange(name, value) =>
              /\ errorsState'[name]
                     = validateFieldWith(Put(values, name, value), name, value)
              /\ (/\ config[name].type = "repeatPassword"
                  /\ MatchTarget(config[name]) = name
                  /\ value # <<>>)
                 => errorsState'[name] # PasswordsDoNotMatch]_vars

\* C23: no update is lost.  After any number of handleChange calls made from
\* one render, for different fields, the value store holds the value of each
\* call and the error store the error each call computed.
C23_NoLostUpdate ==
    \A name \in DOMAIN batch :
        /\ name \in DOMAIN valuesState
        /\ valuesState[name] = batch[name].value
        /\ name \in DOMAIN errorsState
        /\ errorsState[name] = batch[name].error

\* C23 witness: password and repeatPassword were both changed from one
\* render, which still shows them empty; the second call stored an error.
C23_Witness ==
    /\ config = CfgLogin
    /\ DOMAIN batch = {"password", "repeatPassword"}
    /\ values["password"] = <<>>
    /\ values["repeatPassword"] = <<>>
    /\ batch["password"].value = <<"1">>
    /\ batch["repeatPassword"].value = <<"1">>
    /\ errorsState["repeatPassword"] = PasswordsDoNotMatch

\* C24: with overlapping copies, once a later copy has succeeded the timer of
\* an earlier copy does not set copied back to false: when a timer fires
\* while the timer of a later successful copy is still set, copied keeps its
\* value.
C24_EarlierTimerKeepsCopied ==
    [][(TimerFires /\ Len(timers) > 1) => copiedState' = copiedState]_vars

====
